---- MODULE Spec2Model ----
(***************************************************************************)
(* A model of app.py of vinyl-reporter: the collection cache (memory +     *)
(* JSON file, TTL), the two-call LLM analysis, and the report routes.      *)
(***************************************************************************)
EXTENDS Integers, Sequences, FiniteSets, TLC

VARIABLES
    now,               \* time.time(), in whole seconds
    collection_cache,  \* the in-memory dict: username -> entry
    cache_file,        \* .collection_cache.json: <<dict>>, or <<>> when there
                       \* is no file or json.load rejects what it holds
    last_set,          \* history: username -> the entry of its latest set call
    cache_call,        \* the latest cache call and what it returned
    llm_pc,            \* where analyze_collection_with_llm stands
    overview_future,   \* executor.submit(_call_llm, overview_prompt)
    growth_future,     \* executor.submit(_call_llm, growth_prompt)
    done_order,        \* the futures' names in the order they finished
    llm_exc,           \* the exception raised inside the with block, if any
    llm_result,        \* what analyze_collection_with_llm returned or raised
    session,           \* the browser's signed session cookie: a dict
    oauth_token_cache, \* request token -> {'request_secret', 'timestamp'}
    pending_analysis,  \* session id -> {'analysis', 'collection_size'}
    req,               \* the request being served: "none", a route, or "done"
    response,          \* the response of the request just served
    stream_pc,         \* the yield at which event_stream is suspended
    events,            \* the events event_stream has yielded so far
    user,              \* user.username of the request being served
    collection_data,   \* collection_data of the request being served
    releases,          \* the releases being iterated, and
    release_pos,       \* the position of the next one
    route,             \* the route of the request being served, "" when none
    calls,             \* the Discogs, cache and LLM calls it has made so far
    writers            \* the threads inside set_cached_collection

cache_vars == <<now, collection_cache, cache_file, last_set, cache_call>>

llm_vars == <<llm_pc, overview_future, growth_future, done_order, llm_exc, llm_result>>

route_vars == <<session, oauth_token_cache, pending_analysis, req, response,
                stream_pc, events, user, collection_data, releases, release_pos,
                route, calls>>

vars == <<cache_vars, llm_vars, route_vars, writers>>

\* ---------------------------------------------------------------- values

COLLECTION_CACHE_TTL == 600

\* The clock stops at MaxTime.
MaxTime == 903

Usernames == {"alice", "bob"}

\* Python's None and a returned value v, as a sequence of at most one element.
None == <<>>
Some(v) == <<v>>

\* A Python dict is a function whose DOMAIN is the set of its keys.
EmptyDict == [k \in {} |-> 0]
Put(d, k, v) == [x \in (DOMAIN d) \cup {k} |-> IF x = k THEN v ELSE d[x]]
Get(d, k) == IF k \in DOMAIN d THEN Some(d[k]) ELSE None

\* The album lists handed to set_cached_collection when it is called directly.
CacheData == {<<>>, <<1>>, <<2, 3>>}

\* The steps of the clock between two calls.
Deltas == {299, 300, 301}

\* ------------------------------------------------------- collection cache

\* _load_cache_file: the dict in the file, {} when there is no file.
\* json.load(json.dump(d)) = d for a dict of str -> {'data': list, 'timestamp':
\* float}, so the file is represented by the dict it encodes.
_load_cache_file == IF cache_file = <<>> THEN EmptyDict ELSE cache_file[1]

\* _save_cache_file: the file after writing cache to it.
_save_cache_file(cache) == <<cache>>

\* line 88 with <= for <
IsFresh_Inclusive(entry, t) == (t - entry.timestamp) <= COLLECTION_CACHE_TTL

\* (time.time() - entry['timestamp']) < COLLECTION_CACHE_TTL
IsFresh(entry, t) == (t - entry.timestamp) < COLLECTION_CACHE_TTL

\* lines 82-85: the entry get_cached_collection looks at, memory first.
LookupEntry(cache, username) ==
    IF username \in DOMAIN cache
        THEN Some(cache[username])
        ELSE Get(_load_cache_file, username)

\* line 87 refreshing the timestamp of every entry it finds (a sliding TTL)
get_cached_collection_cache_Sliding(cache, username, t) ==
    LET entry == LookupEntry(cache, username)
    IN  IF entry # None
            THEN Put(cache, username, [entry[1] EXCEPT !.timestamp = t])
            ELSE cache

\* get_cached_collection, its effect on collection_cache: an entry found on
\* disk only is promoted to memory.
get_cached_collection_cache(cache, username, t) ==
    LET entry == LookupEntry(cache, username)
    IN  IF username \notin DOMAIN cache /\ entry # None
            THEN Put(cache, username, entry[1])
            ELSE cache

\* lines 88-89 left out: every lookup misses
get_cached_collection_Miss(cache, username, t) == None

\* get_cached_collection, its return value.
get_cached_collection(cache, username, t) ==
    LET entry == LookupEntry(cache, username)
    IN  IF entry # None /\ IsFresh(entry[1], t)
            THEN Some(entry[1].data)
            ELSE None

\* line 94
NewEntry(data, t) == [data |-> data, timestamp |-> t]

\* set_cached_collection, its effect on collection_cache.
set_cached_collection_cache(cache, username, data, t) ==
    Put(cache, username, NewEntry(data, t))

\* lines 96-98 writing a fresh dict instead of the loaded one
set_cached_collection_file_Fresh(username, data, t) ==
    _save_cache_file(Put(EmptyDict, username, NewEntry(data, t)))

\* lines 96-98 left out: the entry is kept in memory only
set_cached_collection_file_MemoryOnly(username, data, t) == cache_file

\* set_cached_collection, its effect on the file: load, update, save.
set_cached_collection_file(username, data, t) ==
    _save_cache_file(Put(_load_cache_file, username, NewEntry(data, t)))

\* Where get_cached_collection finds its entry: lines 82-86.
EntrySource(cache, username) ==
    IF username \in DOMAIN cache THEN "memory"
    ELSE IF username \in DOMAIN _load_cache_file THEN "disk"
    ELSE "nowhere"

\* No cache call has been made since the clock or the process last moved.
NoCall == [op |-> "none", username |-> "", source |-> "", result |-> None]

\* A direct call of get_cached_collection(username).
CallGet(username) ==
    /\ collection_cache' = get_cached_collection_cache(collection_cache, username, now)
    /\ cache_call' = [op |-> "get", username |-> username,
                      source |-> EntrySource(collection_cache, username),
                      result |-> get_cached_collection(collection_cache, username, now)]
    /\ UNCHANGED <<now, cache_file, last_set, llm_vars, route_vars, writers>>

\* A direct call of set_cached_collection(username, data).
CallSet(username, data) ==
    /\ collection_cache' = set_cached_collection_cache(collection_cache, username, data, now)
    /\ cache_file' = set_cached_collection_file(username, data, now)
    /\ last_set' = Put(last_set, username, NewEntry(data, now))
    /\ cache_call' = [op |-> "set", username |-> username, source |-> "",
                      result |-> None]
    /\ UNCHANGED <<now, llm_vars, route_vars, writers>>

\* The process restarts: the module-level dict is empty again, the file stays.
Restart ==
    /\ collection_cache # EmptyDict
    /\ collection_cache' = EmptyDict
    /\ cache_call' = NoCall
    /\ UNCHANGED <<now, cache_file, last_set, llm_vars, route_vars, writers>>

\* Time passes.
Tick(d) ==
    /\ now + d <= MaxTime
    /\ now' = now + d
    /\ cache_call' = NoCall
    /\ UNCHANGED <<collection_cache, cache_file, last_set, llm_vars, route_vars, writers>>

CacheGet == \E u \in Usernames : CallGet(u)
CacheSet == \E u \in Usernames, d \in CacheData : CallSet(u, d)
CacheTick == \E d \in Deltas : Tick(d)

\* ------------------------------------- set_cached_collection, line by line

\* The request threads of the server (app.run serves each request on a
\* thread of its own).
Threads == {"t1", "t2"}

\* A thread that is not inside set_cached_collection.
IdleWriter == [pc |-> "idle", username |-> "", entry |-> NewEntry(<<>>, 0),
               disk_cache |-> EmptyDict]

\* Line 94: thread t enters set_cached_collection(username, data).
SetCall(t, username, data) ==
    /\ writers[t].pc = "idle"
    /\ writers' = [writers EXCEPT ![t] = [pc |-> "memory", username |-> username,
                                          entry |-> NewEntry(data, now),
                                          disk_cache |-> EmptyDict]]
    /\ UNCHANGED <<cache_vars, llm_vars, route_vars>>

\* Line 95: collection_cache[username] = entry.
SetMemory(t) ==
    /\ writers[t].pc = "memory"
    /\ collection_cache' = Put(collection_cache, writers[t].username, writers[t].entry)
    /\ writers' = [writers EXCEPT ![t].pc = "load"]
    /\ UNCHANGED <<now, cache_file, last_set, cache_call, llm_vars, route_vars>>

\* Lines 96-97: disk_cache = _load_cache_file(); disk_cache[username] = entry.
SetLoad(t) ==
    /\ writers[t].pc = "load"
    /\ writers' = [writers EXCEPT ![t].pc = "open",
                                  ![t].disk_cache = Put(_load_cache_file,
                                                        writers[t].username,
                                                        writers[t].entry)]
    /\ UNCHANGED <<cache_vars, llm_vars, route_vars>>

\* Line 76: open(COLLECTION_CACHE_FILE, 'w') truncates the file; an empty
\* file is one json.load rejects.
SetOpen(t) ==
    /\ writers[t].pc = "open"
    /\ cache_file' = <<>>
    /\ writers' = [writers EXCEPT ![t].pc = "dump"]
    /\ UNCHANGED <<now, collection_cache, last_set, cache_call, llm_vars, route_vars>>

\* Line 77 and the close of the file: the JSON text is written from offset 0.
\* When another thread has written since this one truncated the file, the
\* text lands on top of the other's: the file then holds this thread's dict,
\* or this thread's text followed by the tail of a longer one, which
\* json.load rejects.
SetDump(t) ==
    /\ writers[t].pc = "dump"
    /\ \/ cache_file' = _save_cache_file(writers[t].disk_cache)
       \/ cache_file # <<>> /\ cache_file' = <<>>
    /\ writers' = [writers EXCEPT ![t].pc = "done"]
    /\ UNCHANGED <<now, collection_cache, last_set, cache_call, llm_vars, route_vars>>

\* The calls return and their threads serve the next requests.
SetReturn ==
    /\ \E t \in Threads : writers[t].pc = "done"
    /\ \A t \in Threads : writers[t].pc \in {"idle", "done"}
    /\ writers' = [t \in Threads |-> IdleWriter]
    /\ UNCHANGED <<cache_vars, llm_vars, route_vars>>

\* ------------------------------------------------------------ LLM analysis

\* The fields of the result, in the order lines 271-274 read them.
OverviewFields == <<"vibe_summary", "strengths", "taste_recommendations">>
GrowthFields == <<"growth_areas">>
ResultFields == {"vibe_summary", "strengths", "taste_recommendations", "growth_areas"}

\* A parsed JSON object of the LLM: a dict; the value of field k in the
\* response to prompt p is the token <<p, k>>.
Response(prompt, fields) == [k \in fields |-> <<prompt, k>>]

\* What a function call ends with: a returned value or a raised exception.
Returned(v) == [raised |-> FALSE, value |-> v, message |-> <<>>]
Raised(msg) == [raised |-> TRUE, value |-> EmptyDict, message |-> msg]

\* The responses a call may get: every field and one more, the three overview
\* fields, growth_areas alone, and all but strengths.
ResponseShapes ==
    { ResultFields \cup {"note"},
      {"vibe_summary", "strengths", "taste_recommendations"},
      {"growth_areas"},
      {"vibe_summary", "taste_recommendations", "growth_areas"} }

\* _call_llm(prompt): the API call raises or json.loads returns an object.
_call_llm(prompt) ==
    {Raised(<<"timeout: ", prompt>>)}
        \cup {Returned(Response(prompt, f)) : f \in ResponseShapes}

\* A future: not submitted, running on a worker thread, or done.
NoFuture == [state |-> "none", outcome |-> Returned(EmptyDict)]
RunningFuture == [state |-> "running", outcome |-> Returned(EmptyDict)]
DoneFuture(outcome) == [state |-> "done", outcome |-> outcome]

NoResult == [kind |-> "none", value |-> EmptyDict, message |-> <<>>]

\* raise ValueError(f"Error calling LLM: {str(e)}")
LLMError(cause) ==
    [kind |-> "raised", value |-> EmptyDict,
     message |-> <<"Error calling LLM: ">> \o cause]

\* The first field lines 271-274 do not find, as KeyError's str; <<>> if none.
MissingField(overview, growth) ==
    LET miss_o == SelectSeq(OverviewFields, LAMBDA k : k \notin DOMAIN overview)
        miss_g == SelectSeq(GrowthFields, LAMBDA k : k \notin DOMAIN growth)
    IN  IF miss_o # <<>> THEN <<miss_o[1]>>
        ELSE IF miss_g # <<>> THEN <<miss_g[1]>>
        ELSE <<>>

\* lines 270-275 taking the three overview fields from whichever call
\* finished first
BuildResult_FirstDone(overview, growth) ==
    LET first == IF done_order[1] = "overview" THEN overview ELSE growth
        last == IF done_order[1] = "overview" THEN growth ELSE overview
        pick(a, b, k) == IF k \in DOMAIN a THEN a[k] ELSE b[k]
    IN  [k \in ResultFields |->
            IF k = "growth_areas" THEN pick(last, first, k) ELSE pick(first, last, k)]

\* lines 270-275: the dict analyze_collection_with_llm returns.
BuildResult(overview, growth) ==
    [k \in ResultFields |->
        IF k = "growth_areas" THEN growth[k] ELSE overview[k]]

\* the with block left without waiting (shutdown(wait=False))
executor_shutdown_NoWait == TRUE

\* ThreadPoolExecutor.__exit__: shutdown(wait=True) returns once no submitted
\* call is still running.
executor_shutdown == overview_future.state # "running" /\ growth_future.state # "running"

\* analyze_collection_with_llm is entered: line 264.
EnterAnalyze ==
    /\ llm_pc' = "submit_overview"
    /\ overview_future' = NoFuture
    /\ growth_future' = NoFuture
    /\ done_order' = <<>>
    /\ llm_exc' = None
    /\ llm_result' = NoResult

\* line 265
SubmitOverview ==
    /\ llm_pc = "submit_overview"
    /\ overview_future' = RunningFuture
    /\ llm_pc' = "submit_growth"
    /\ UNCHANGED <<growth_future, done_order, llm_exc, llm_result>>

\* line 266
SubmitGrowth ==
    /\ llm_pc = "submit_growth"
    /\ growth_future' = RunningFuture
    /\ llm_pc' = "overview_result"
    /\ UNCHANGED <<overview_future, done_order, llm_exc, llm_result>>

\* A worker thread finishes _call_llm(overview_prompt).
FinishOverview(outcome) ==
    /\ overview_future.state = "running"
    /\ overview_future' = DoneFuture(outcome)
    /\ done_order' = Append(done_order, "overview")
    /\ UNCHANGED <<llm_pc, growth_future, llm_exc, llm_result>>

\* A worker thread finishes _call_llm(growth_prompt).
FinishGrowth(outcome) ==
    /\ growth_future.state = "running"
    /\ growth_future' = DoneFuture(outcome)
    /\ done_order' = Append(done_order, "growth")
    /\ UNCHANGED <<llm_pc, overview_future, llm_exc, llm_result>>

\* line 267: overview_future.result() returns the value or re-raises.
OverviewResult ==
    /\ llm_pc = "overview_result"
    /\ overview_future.state = "done"
    /\ IF overview_future.outcome.raised
          THEN /\ llm_exc' = Some(overview_future.outcome.message)
               /\ llm_pc' = "exit"
          ELSE /\ llm_exc' = None
               /\ llm_pc' = "growth_result"
    /\ UNCHANGED <<overview_future, growth_future, done_order, llm_result>>

\* line 268: growth_future.result() returns the value or re-raises.
GrowthResult ==
    /\ llm_pc = "growth_result"
    /\ growth_future.state = "done"
    /\ llm_exc' = IF growth_future.outcome.raised
                     THEN Some(growth_future.outcome.message)
                     ELSE None
    /\ llm_pc' = "exit"
    /\ UNCHANGED <<overview_future, growth_future, done_order, llm_result>>

\* lines 270-277 once the with block is left: exc is the exception raised
\* inside it, if any; else the result is built, which raises KeyError for a
\* missing field; every exception becomes the ValueError.
AnalyzeResult(exc, overview, growth) ==
    IF exc # None THEN LLMError(exc[1])
    ELSE IF MissingField(overview, growth) # <<>>
        THEN LLMError(MissingField(overview, growth))
    ELSE [kind |-> "returned", value |-> BuildResult(overview, growth),
          message |-> <<>>]

\* lines 267-268: the exception the two result() calls raise, if any.
ResultException(overview_outcome, growth_outcome) ==
    IF overview_outcome.raised THEN Some(overview_outcome.message)
    ELSE IF growth_outcome.raised THEN Some(growth_outcome.message)
    ELSE None

\* lines 276-277 passing on what the overview response holds when a field
\* is missing
analyze_collection_with_llm_Partial(overview_outcome, growth_outcome) ==
    IF overview_outcome.raised \/ growth_outcome.raised
        THEN LLMError(ResultException(overview_outcome, growth_outcome)[1])
        ELSE [kind |-> "returned",
              value |-> [k \in ResultFields |->
                           IF k \in DOMAIN overview_outcome.value
                               THEN overview_outcome.value[k]
                           ELSE IF k \in DOMAIN growth_outcome.value
                               THEN growth_outcome.value[k]
                           ELSE <<>>],
              message |-> <<>>]

\* analyze_collection_with_llm as a function of what its two calls end with.
analyze_collection_with_llm(overview_outcome, growth_outcome) ==
    AnalyzeResult(ResultException(overview_outcome, growth_outcome),
                  overview_outcome.value, growth_outcome.value)

\* The with block is left (the executor waits for its calls), then lines
\* 270-277: the result is built and returned, or ValueError is raised.
ExitAnalyze ==
    /\ llm_pc = "exit"
    /\ executor_shutdown
    /\ llm_result' = AnalyzeResult(llm_exc, overview_future.outcome.value,
                                   growth_future.outcome.value)
    /\ llm_pc' = llm_result'.kind
    /\ UNCHANGED <<overview_future, growth_future, done_order, llm_exc>>

\* A direct call of analyze_collection_with_llm.
CallAnalyze ==
    /\ llm_pc \in {"idle", "returned", "raised"}
    /\ EnterAnalyze
    /\ UNCHANGED <<cache_vars, route_vars, writers>>

\* The steps of a call in progress.
AnalyzeStep ==
    /\ \/ SubmitOverview
       \/ SubmitGrowth
       \/ \E o \in _call_llm("overview") : FinishOverview(o)
       \/ \E o \in _call_llm("growth") : FinishGrowth(o)
       \/ OverviewResult
       \/ GrowthResult
       \/ ExitAnalyze
    /\ UNCHANGED <<cache_vars, route_vars, writers>>

InitLLM ==
    /\ llm_pc = "idle"
    /\ overview_future = NoFuture
    /\ growth_future = NoFuture
    /\ done_order = <<>>
    /\ llm_exc = None
    /\ llm_result = NoResult

\* ------------------------------------------------------ session and OAuth

MAX_COLLECTION_SIZE == 500

\* dict.pop(key, None) for each of keys.
Remove(d, keys) == [k \in (DOMAIN d) \ keys |-> d[k]]

\* What Discogs hands out: request token pairs, access token pairs, and the
\* account an access token belongs to (client.identity().username).
RequestTokens == {<<"rt1", "rs1">>}
AccessTokens == {<<"at1", "as1">>}
TokenUser(token) == "alice"

\* lines 399 and 449 left out: every session passes
Authenticated_Always(sess) == TRUE

\* session.get('discogs_token') and session.get('discogs_token_secret')
Authenticated(sess) ==
    "discogs_token" \in DOMAIN sess /\ "discogs_token_secret" \in DOMAIN sess

\* A response: its status, its error message (pieces of text) and, for the
\* report, the analysis and the collection size.
NoResponse == [status |-> 0, error |-> <<>>, analysis |-> EmptyDict, collection_size |-> 0]
ErrorResponse(status, error) ==
    [status |-> status, error |-> error, analysis |-> EmptyDict, collection_size |-> 0]
Redirect == [status |-> 302, error |-> <<>>, analysis |-> EmptyDict, collection_size |-> 0]

\* Nothing of a request in progress.
NoRequest ==
    /\ stream_pc' = "none"
    /\ events' = <<>>
    /\ user' = ""
    /\ collection_data' = <<>>
    /\ releases' = <<>>
    /\ release_pos' = 0
    /\ route' = ""
    /\ calls' = <<>>

\* /login: client.get_authorize_url raises or returns a request token pair.
login(authorize) ==
    /\ req = "none"
    /\ req' = "done"
    /\ route' = "login"
    /\ calls' = <<"get_authorize_url">>
    /\ IF authorize.raised
          THEN /\ response' = ErrorResponse(500, <<"Error initiating login: ">> \o authorize.message)
               /\ UNCHANGED <<session, oauth_token_cache>>
          ELSE LET request_token == authorize.value[1]
                   request_secret == authorize.value[2]
               IN  /\ session' = Put(Put(session, "discogs_request_token", request_token),
                                     "discogs_request_secret", request_secret)
                   /\ oauth_token_cache' =
                          Put(oauth_token_cache, request_token,
                              [request_secret |-> request_secret, timestamp |-> now])
                   /\ response' = Redirect
    /\ UNCHANGED <<pending_analysis, stream_pc, events, user, collection_data,
                   releases, release_pos, cache_vars, llm_vars, writers>>

\* line 344 left out: any oauth_token is accepted
TokenMismatch_Ignored(oauth_token, request_token) == FALSE

\* oauth_token and oauth_token != request_token
TokenMismatch(oauth_token, request_token) ==
    oauth_token # "" /\ oauth_token # request_token

\* /callback: verifier and oauth_token are the query arguments ("" when
\* absent), exchange is what client.get_access_token does, identity what
\* client.identity() does.
callback(verifier, oauth_token, exchange, identity) ==
    /\ req = "none"
    /\ req' = "done"
    /\ route' = "callback"
    /\ IF verifier = ""
          THEN /\ response' = ErrorResponse(400, <<"Authorization failed. No verifier received.">>)
               /\ calls' = <<>>
               /\ UNCHANGED <<session, oauth_token_cache>>
          ELSE
            LET in_session == /\ "discogs_request_token" \in DOMAIN session
                              /\ "discogs_request_secret" \in DOMAIN session
                from_cache == ~in_session /\ oauth_token # ""
                                  /\ oauth_token \in DOMAIN oauth_token_cache
                request_token == IF in_session THEN <<session["discogs_request_token"]>>
                                 ELSE IF from_cache THEN <<oauth_token>>
                                 ELSE <<>>
            IN  /\ oauth_token_cache' = IF from_cache THEN EmptyDict ELSE oauth_token_cache
                /\ IF request_token = <<>>
                      THEN /\ response' = ErrorResponse(400, <<"Session expired. Please try logging in again.">>)
                           /\ calls' = <<>>
                           /\ UNCHANGED session
                   ELSE IF TokenMismatch(oauth_token, request_token[1])
                      THEN /\ response' = ErrorResponse(400, <<"Token mismatch. Please try logging in again.">>)
                           /\ calls' = <<>>
                           /\ UNCHANGED session
                   ELSE IF exchange.raised
                      THEN /\ response' = ErrorResponse(500, <<"Error getting access token: ">> \o exchange.message)
                           /\ calls' = <<"get_access_token">>
                           /\ UNCHANGED session
                   ELSE /\ session' =
                               Remove(
                                 Put(Put(Put(session, "discogs_token", exchange.value[1]),
                                         "discogs_token_secret", exchange.value[2]),
                                     "discogs_username",
                                     IF identity.raised THEN "User" ELSE identity.value),
                                 {"discogs_request_token", "discogs_request_secret"})
                        /\ calls' = <<"get_access_token", "identity">>
                        /\ response' = Redirect
    /\ UNCHANGED <<pending_analysis, stream_pc, events, user, collection_data,
                   releases, release_pos, cache_vars, llm_vars, writers>>

\* lines 391-393 with session.clear() for the three pops
LogoutKeys_All ==
    {"discogs_token", "discogs_token_secret", "discogs_username",
     "discogs_request_token", "discogs_request_secret", "analysis", "collection_size"}

\* The keys /logout pops.
LogoutKeys == {"discogs_token", "discogs_token_secret", "discogs_username"}

\* /logout
logout ==
    /\ req = "none"
    /\ req' = "done"
    /\ route' = "logout"
    /\ calls' = <<>>
    /\ session' = Remove(session, LogoutKeys)
    /\ response' = Redirect
    /\ UNCHANGED <<oauth_token_cache, pending_analysis, stream_pc, events, user,
                   collection_data, releases, release_pos, cache_vars, llm_vars,
                   writers>>

\* The response has been sent and the request is over.
FinishRequest ==
    /\ req = "done"
    /\ req' = "none"
    /\ response' = NoResponse
    /\ llm_result' = NoResult
    /\ overview_future' = NoFuture
    /\ growth_future' = NoFuture
    /\ NoRequest
    /\ UNCHANGED <<session, oauth_token_cache, pending_analysis, cache_vars,
                   llm_pc, done_order, llm_exc, writers>>

\* What the Discogs calls of a request do.
IdentityOutcomes(sess) ==
    {Raised(<<"identity failed">>), Returned(TokenUser(sess["discogs_token"]))}
AuthorizeOutcomes == {Raised(<<"authorize failed">>)} \cup {Returned(t) : t \in RequestTokens}
ExchangeOutcomes == {Raised(<<"exchange failed">>)} \cup {Returned(t) : t \in AccessTokens}

\* ------------------------------------------------------------ Discogs data

\* An item of all_folder.releases: a release (its number stands for the
\* album_info built from it), an item whose conversion raises (skipped by
\* the inner except), or a page that fails to load while iterating.
BadItem == 0
PageError == -1
IsRelease(item) == item > 0

\* n releases; every release listed in skipped is a bad item instead.
ReleaseList(n, skipped) == [i \in 1..n |-> IF i \in skipped THEN BadItem ELSE i]

\* What user.collection_folders and the "All" folder give.
Collection(folders, items) == [folders |-> folders, items |-> items]

\* The collections the account may hold when a request reads it.
DiscogsCollections ==
    { Collection("raise", <<>>),
      Collection("empty", <<>>),
      Collection("ok", <<>>),
      Collection("ok", <<BadItem>>),
      Collection("ok", <<1, PageError>>),
      Collection("ok", ReleaseList(12, {3})),
      Collection("ok", ReleaseList(MAX_COLLECTION_SIZE, {})),
      Collection("ok", ReleaseList(MAX_COLLECTION_SIZE + 1, {})) }

\* What an LLM call of a request ends with: it raises, or its response lacks
\* strengths and growth_areas, or holds every field.
RouteOutcomes(prompt) ==
    { Raised(<<"timeout: ", prompt>>),
      Returned(Response(prompt, {"vibe_summary", "taste_recommendations"})),
      Returned(Response(prompt, ResultFields)) }

\* ------------------------------------------------------- /generate-report

\* the size checks of lines 410, 464 and 539 left out
TooLarge_Never(data) == FALSE

\* len(collection_data) > MAX_COLLECTION_SIZE
TooLarge(data) == Len(data) > MAX_COLLECTION_SIZE

\* What a function gives back together with the cache it leaves behind and
\* the calls it has made.
CallResult(outcome, cache, file, made) ==
    [outcome |-> outcome, cache |-> cache, file |-> file, calls |-> made]

\* line 161 left out: whatever was fetched is cached
ShouldCache_Always(data) == TRUE

\* line 161 with the limit of line 410: only a collection the route accepts
ShouldCache_WithinLimit(data) == data # <<>> /\ Len(data) <= MAX_COLLECTION_SIZE

\* line 161: if collection_data
ShouldCache(data) == data # <<>>

\* fetch_collection_from_discogs: identity, cache lookup, folders, releases.
fetch_collection_from_discogs(identity, discogs) ==
    LET wrap(msg) == Raised(<<"Error fetching collection from Discogs: ">> \o msg)
        looked == <<"identity", "get_cached_collection">>
        folders == Append(looked, "collection_folders")
        listed == Append(folders, "releases")
    IN  IF identity.raised
            THEN CallResult(wrap(identity.message), collection_cache, cache_file,
                            <<"identity">>)
        ELSE
        LET username == identity.value
            cached == get_cached_collection(collection_cache, username, now)
            cache1 == get_cached_collection_cache(collection_cache, username, now)
            data == SelectSeq(discogs.items, IsRelease)
        IN  IF cached # None
                THEN CallResult(Returned(cached[1]), cache1, cache_file, looked)
            ELSE IF discogs.folders = "raise"
                THEN CallResult(wrap(<<"Could not access collection folders: ">>),
                                cache1, cache_file, folders)
            ELSE IF discogs.folders = "empty"
                THEN CallResult(Returned(<<>>), cache1, cache_file, folders)
            ELSE IF \E i \in DOMAIN discogs.items : discogs.items[i] = PageError
                THEN CallResult(wrap(<<"page failed">>), cache1, cache_file, listed)
            ELSE IF ShouldCache(data)
                THEN CallResult(Returned(data),
                                set_cached_collection_cache(cache1, username, data, now),
                                set_cached_collection_file(username, data, now),
                                Append(listed, "set_cached_collection"))
            ELSE CallResult(Returned(data), cache1, cache_file, listed)

\* lines 415-418 and 426-427: the session after the analysis has returned
\* or raised.
ReportSession(sess, result, data) ==
    IF result.kind = "returned"
        THEN Put(Put(sess, "analysis", result.value), "collection_size", Len(data))
        ELSE sess

\* /generate-report: identity and discogs are what the Discogs calls do,
\* overview and growth what the two LLM calls end with.
generate_report(identity, discogs, overview, growth) ==
    /\ req = "none"
    /\ req' = "done"
    /\ route' = "generate_report"
    /\ IF ~Authenticated(session)
          THEN /\ response' = ErrorResponse(401, <<"Not authenticated with Discogs">>)
               /\ calls' = <<>>
               /\ UNCHANGED <<collection_cache, cache_file, session, llm_result,
                              overview_future, growth_future, user, collection_data>>
          ELSE
            LET fetched == fetch_collection_from_discogs(identity, discogs)
                data == fetched.outcome.value
                analysis == analyze_collection_with_llm(overview, growth)
            IN  /\ collection_cache' = fetched.cache
                /\ cache_file' = fetched.file
                /\ IF fetched.outcome.raised
                      THEN /\ response' = ErrorResponse(400, fetched.outcome.message)
                           /\ calls' = fetched.calls
                           /\ user' = IF identity.raised THEN user ELSE identity.value
                           /\ UNCHANGED <<session, llm_result, overview_future,
                                          growth_future, collection_data>>
                   ELSE /\ user' = identity.value
                        /\ collection_data' = data
                        /\ IF data = <<>>
                              THEN /\ response' = ErrorResponse(400, <<"No collection data found.">>)
                                   /\ calls' = fetched.calls
                                   /\ UNCHANGED <<session, llm_result, overview_future, growth_future>>
                           ELSE IF TooLarge(data)
                              THEN /\ response' = ErrorResponse(400, <<"Collections over 500 albums are not currently supported.">>)
                                   /\ calls' = fetched.calls
                                   /\ UNCHANGED <<session, llm_result, overview_future, growth_future>>
                           ELSE /\ overview_future' = DoneFuture(overview)
                                /\ growth_future' = DoneFuture(growth)
                                /\ llm_result' = analysis
                                /\ calls' = Append(fetched.calls, "analyze_collection_with_llm")
                                /\ session' = ReportSession(session, analysis, data)
                                /\ response' =
                                       IF analysis.kind = "returned"
                                           THEN [status |-> 200, error |-> <<>>,
                                                 analysis |-> analysis.value,
                                                 collection_size |-> Len(data)]
                                           ELSE ErrorResponse(400, analysis.message)
    /\ UNCHANGED <<now, last_set, cache_call, oauth_token_cache, pending_analysis,
                   stream_pc, events, releases, release_pos,
                   llm_pc, done_order, llm_exc, writers>>

\* ------------------------------------------------ /generate-report-stream

\* send_status, send_error, send_complete: the events of the stream.
StatusEvent(step, message) == [event |-> "status", step |-> step, message |-> message]
ErrorEvent(message) == [event |-> "error_msg", step |-> "", message |-> message]
CompleteEvent == [event |-> "complete", step |-> "", message |-> <<>>]

\* the return after a yield send_error(...) left out at line 466
AfterError_NoReturn(site) == IF site = "cached_oversize" THEN "cached" ELSE "done"

\* Where event_stream goes on after yield send_error(...) at site: every
\* one is followed by return.
AfterError(site) == "done"

\* line 561 with the default for every session
SessionId_Anon(sess) == "anon"

\* session.get('discogs_token', 'anon')
SessionId(sess) == IF "discogs_token" \in DOMAIN sess THEN sess["discogs_token"] ELSE "anon"

\* event_stream yields event and is suspended at pc ("done": it has ended).
Yield(event, pc) ==
    /\ events' = Append(events, event)
    /\ stream_pc' = pc
    /\ req' = IF pc = "done" THEN "done" ELSE "stream"

\* yield send_error(message), then return.
YieldError(site, message) == Yield(ErrorEvent(message), AfterError(site))

\* lines 496-533 from releases[pos] on, up to the next yield (album_count,
\* which is len(collection_data), reaches a multiple of 10), the end of the
\* releases, or a page that fails to load.
RECURSIVE RunLoop(_, _, _)
RunLoop(items, pos, data) ==
    IF pos > Len(items) THEN [stop |-> "end", pos |-> pos, data |-> data]
    ELSE IF items[pos] = PageError THEN [stop |-> "raise", pos |-> pos, data |-> data]
    ELSE IF ~IsRelease(items[pos]) THEN RunLoop(items, pos + 1, data)
    ELSE IF (Len(data) + 1) % 10 = 0
        THEN [stop |-> "yield", pos |-> pos + 1, data |-> Append(data, items[pos])]
    ELSE RunLoop(items, pos + 1, Append(data, items[pos]))

\* The request arrives; event_stream runs to its first yield (line 447).
StreamStart ==
    /\ req = "none"
    /\ events' = <<StatusEvent("step-connect", <<"Connecting to Discogs...">>)>>
    /\ stream_pc' = "connect"
    /\ req' = "stream"
    /\ route' = "generate_report_stream"
    /\ calls' = <<>>
    /\ UNCHANGED <<cache_vars, llm_vars, session, oauth_token_cache, pending_analysis,
                   response, user, collection_data, releases, release_pos, writers>>

\* Lines 449-470: the session check, client.identity(), the cache lookup.
StreamConnect(identity) ==
    /\ req = "stream" /\ stream_pc = "connect"
    /\ IF ~Authenticated(session)
          THEN /\ YieldError("auth", <<"Not authenticated with Discogs. Please log in again.">>)
               /\ UNCHANGED <<collection_cache, user, collection_data, calls>>
       ELSE IF identity.raised
          THEN /\ YieldError("identity", <<"Failed to connect to Discogs: ">> \o identity.message)
               /\ calls' = Append(calls, "identity")
               /\ UNCHANGED <<collection_cache, user, collection_data>>
       ELSE
          LET cached == get_cached_collection(collection_cache, identity.value, now)
          IN  /\ user' = identity.value
              /\ calls' = calls \o <<"identity", "get_cached_collection">>
              /\ collection_cache' =
                     get_cached_collection_cache(collection_cache, identity.value, now)
              /\ IF cached = None
                    THEN /\ Yield(StatusEvent("step-fetch", <<"Fetching collection...">>), "fetch")
                         /\ UNCHANGED collection_data
                 ELSE /\ collection_data' = cached[1]
                      /\ IF TooLarge(cached[1])
                            THEN YieldError("cached_oversize", <<"Collections over 500 albums are not currently supported.">>)
                            ELSE Yield(StatusEvent("step-fetch", <<"Using cached collection">>), "cached")
    /\ UNCHANGED <<now, cache_file, last_set, cache_call, llm_vars, session,
                   oauth_token_cache, pending_analysis, response, releases, release_pos,
                   route, writers>>

\* Line 468.
StreamCached ==
    /\ req = "stream" /\ stream_pc = "cached"
    /\ Yield(StatusEvent("step-analyze", <<"Analyzing albums with AI...">>), "analyze")
    /\ UNCHANGED <<cache_vars, llm_vars, session, oauth_token_cache, pending_analysis,
                   response, user, collection_data, releases, release_pos,
                   route, calls, writers>>

\* Lines 496-548 from releases[pos] on: the loop to its next yield, and
\* after the loop the checks, set_cached_collection and step-analyze; made
\* are the calls made before.
StreamIterate(items, pos, data, made) ==
    LET run == RunLoop(items, pos, data)
    IN  /\ releases' = items
        /\ calls' = IF run.stop = "end" /\ run.data # <<>> /\ ~TooLarge(run.data)
                        THEN Append(made, "set_cached_collection")
                        ELSE made
        /\ release_pos' = run.pos
        /\ collection_data' = run.data
        /\ IF run.stop = "yield"
              THEN /\ Yield(StatusEvent("step-fetch", <<"Fetching collection... albums found">>), "loop")
                   /\ UNCHANGED <<collection_cache, cache_file>>
           ELSE IF run.stop = "raise"
              THEN /\ YieldError("fetch", <<"Error fetching collection: ">>)
                   /\ UNCHANGED <<collection_cache, cache_file>>
           ELSE IF run.data = <<>>
              THEN /\ YieldError("no_albums", <<"No albums found in your collection.">>)
                   /\ UNCHANGED <<collection_cache, cache_file>>
           ELSE IF TooLarge(run.data)
              THEN /\ YieldError("oversize", <<"Collections over 500 albums are not currently supported.">>)
                   /\ UNCHANGED <<collection_cache, cache_file>>
           ELSE /\ collection_cache' =
                       set_cached_collection_cache(collection_cache, user, run.data, now)
                /\ cache_file' = set_cached_collection_file(user, run.data, now)
                /\ Yield(StatusEvent("step-analyze", <<"Analyzing albums with AI...">>), "analyze")

\* Lines 472-496: user.collection_folders, the "All" folder, and the loop
\* to its first yield.
StreamFetch(discogs) ==
    /\ req = "stream" /\ stream_pc = "fetch"
    /\ IF discogs.folders = "raise"
          THEN /\ YieldError("folders", <<"Could not access collection folders: ">>)
               /\ calls' = Append(calls, "collection_folders")
               /\ UNCHANGED <<collection_cache, cache_file, collection_data, releases, release_pos>>
       ELSE IF discogs.folders = "empty"
          THEN /\ YieldError("no_folders", <<"Your Discogs collection appears to be empty.">>)
               /\ calls' = Append(calls, "collection_folders")
               /\ UNCHANGED <<collection_cache, cache_file, collection_data, releases, release_pos>>
       ELSE StreamIterate(discogs.items, 1, <<>>,
                          calls \o <<"collection_folders", "releases">>)
    /\ UNCHANGED <<now, last_set, cache_call, llm_vars, session, oauth_token_cache,
                   pending_analysis, response, user, route, writers>>

\* The loop goes on after a progress event (line 530).
StreamLoop ==
    /\ req = "stream" /\ stream_pc = "loop"
    /\ StreamIterate(releases, release_pos, collection_data, calls)
    /\ UNCHANGED <<now, last_set, cache_call, llm_vars, session, oauth_token_cache,
                   pending_analysis, response, user, route, writers>>

\* Lines 550-558: the analysis, then the error event or step-done.
StreamAnalyze(overview, growth) ==
    /\ req = "stream" /\ stream_pc = "analyze"
    /\ overview_future' = DoneFuture(overview)
    /\ growth_future' = DoneFuture(growth)
    /\ llm_result' = analyze_collection_with_llm(overview, growth)
    /\ calls' = Append(calls, "analyze_collection_with_llm")
    /\ IF llm_result'.kind = "raised"
          THEN YieldError("analysis", <<"Error during analysis: ">> \o llm_result'.message)
          ELSE Yield(StatusEvent("step-done", <<"Building your report...">>), "step_done")
    /\ UNCHANGED <<cache_vars, llm_pc, done_order, llm_exc, session,
                   oauth_token_cache, pending_analysis, response,
                   user, collection_data, releases, release_pos, route, writers>>

\* Lines 561-567: the result is stashed in pending_analysis, then complete.
StreamComplete ==
    /\ req = "stream" /\ stream_pc = "step_done"
    /\ pending_analysis' =
           Put(pending_analysis, SessionId(session),
               [analysis |-> llm_result.value,
                collection_size |-> Len(collection_data)])
    /\ Yield(CompleteEvent, "done")
    /\ UNCHANGED <<cache_vars, llm_vars, session, oauth_token_cache, response,
                   user, collection_data, releases, release_pos, route, calls,
                   writers>>

\* ---------------------------------------------------------------- /results

\* line 577 with get for pop: the entry stays in pending_analysis
PopPending_Keep(pending, sid) == pending

\* pending_analysis.pop(sid, None), its effect on pending_analysis.
PopPending(pending, sid) == Remove(pending, {sid})

\* render_template('results.html', analysis=..., collection_size=...)
Rendered(analysis, collection_size) ==
    [status |-> 200, error |-> <<>>, analysis |-> analysis,
     collection_size |-> collection_size]

\* /results: the pending result of this session id if there is one, else
\* what the session holds.
results ==
    /\ req = "none"
    /\ req' = "done"
    /\ route' = "results"
    /\ calls' = <<>>
    /\ LET sid == SessionId(session)
           pending == Get(pending_analysis, sid)
           analysis == IF pending # None THEN Some(pending[1].analysis)
                       ELSE Get(session, "analysis")
           collection_size ==
               IF pending # None THEN pending[1].collection_size
               ELSE IF "collection_size" \in DOMAIN session
                   THEN session["collection_size"]
               ELSE 0
       IN  /\ pending_analysis' = PopPending(pending_analysis, sid)
           /\ session' = IF pending # None
                            THEN Put(Put(session, "analysis", analysis[1]),
                                     "collection_size", collection_size)
                            ELSE session
           /\ response' =
                  IF analysis = None \/ analysis[1] = EmptyDict
                      THEN ErrorResponse(400, <<"No analysis found. Please generate a report first.">>)
                  ELSE IF "growth_areas" \notin DOMAIN analysis[1]
                      THEN Redirect
                  ELSE Rendered(analysis[1], collection_size)
    /\ UNCHANGED <<oauth_token_cache, stream_pc, events, user, collection_data,
                   releases, release_pos, cache_vars, llm_vars, writers>>

\* --------------------------------------------------------- specifications

\* SpecCache: direct calls of the two cache functions, the clock and
\* restarts.  SpecWriters: set_cached_collection line by line on two
\* threads.  SpecLLM: analyze_collection_with_llm step by step, its two
\* calls on worker threads.  Spec: the routes of one browser session, served
\* one request at a time; event_stream advances from yield to yield.

InitRoutes ==
    /\ session = EmptyDict
    /\ oauth_token_cache = EmptyDict
    /\ pending_analysis = EmptyDict
    /\ req = "none"
    /\ response = NoResponse
    /\ stream_pc = "none"
    /\ events = <<>>
    /\ user = ""
    /\ collection_data = <<>>
    /\ releases = <<>>
    /\ release_pos = 0
    /\ route = ""
    /\ calls = <<>>

InitCache ==
    /\ now = 0
    /\ collection_cache = EmptyDict
    /\ cache_file = <<>>
    /\ last_set = EmptyDict
    /\ cache_call = NoCall

InitWriters == writers = [t \in Threads |-> IdleWriter]

Init == InitCache /\ InitLLM /\ InitRoutes /\ InitWriters

NextCache == CacheGet \/ CacheSet \/ Restart \/ CacheTick

SpecCache == Init /\ [][NextCache]_vars

\* Two request threads, each calling set_cached_collection once at a time,
\* with a non-empty album list as the routes do (lines 161 and 535).
NextWriters ==
    \/ \E t \in Threads, u \in Usernames, d \in CacheData \ {<<>>} :
           SetCall(t, u, d)
    \/ \E t \in Threads : SetMemory(t)
    \/ \E t \in Threads : SetLoad(t)
    \/ \E t \in Threads : SetOpen(t)
    \/ \E t \in Threads : SetDump(t)
    \/ SetReturn

SpecWriters == Init /\ [][NextWriters]_vars

NextLLM == CallAnalyze \/ AnalyzeStep

SpecLLM == Init /\ [][NextLLM]_vars

Login == \E a \in AuthorizeOutcomes : login(a)

Callback ==
    \E verifier \in {"", "v"}, oauth_token \in {"", "rt1", "rt9"},
       exchange \in ExchangeOutcomes :
        \E identity \in {Raised(<<"identity failed">>)}
                \cup (IF exchange.raised THEN {}
                      ELSE {Returned(TokenUser(exchange.value[1]))}) :
            callback(verifier, oauth_token, exchange, identity)

\* The requests a browser with this session cookie sends; a call that is
\* not reached has no outcome to choose.
GenerateReport ==
    \E discogs \in DiscogsCollections :
        \E identity \in (IF Authenticated(session) THEN IdentityOutcomes(session)
                          ELSE {Raised(<<"identity failed">>)}) :
            \E overview \in RouteOutcomes("overview"), growth \in RouteOutcomes("growth") :
                generate_report(identity, discogs, overview, growth)

\* event_stream is resumed.
StreamStep ==
    \/ \E identity \in (IF Authenticated(session) THEN IdentityOutcomes(session)
                         ELSE {Raised(<<"identity failed">>)}) :
           StreamConnect(identity)
    \/ StreamCached
    \/ \E discogs \in DiscogsCollections : StreamFetch(discogs)
    \/ StreamLoop
    \/ \E overview \in RouteOutcomes("overview"), growth \in RouteOutcomes("growth") :
           StreamAnalyze(overview, growth)
    \/ StreamComplete

\* The cache expires, the process restarts: between requests.
Expire == req = "none" /\ Tick(COLLECTION_CACHE_TTL)
RestartServer == req = "none" /\ Restart

Next ==
    \/ Login
    \/ Callback
    \/ logout
    \/ FinishRequest
    \/ GenerateReport
    \/ StreamStart
    \/ StreamStep
    \/ results
    \/ Expire
    \/ RestartServer

Spec == Init /\ [][Next]_vars

\* ------------------------------------------------ claims: collection cache

\* The entry of username in the file, as a sequence of at most one element.
OnDisk(username) ==
    IF cache_file # <<>> /\ username \in DOMAIN cache_file[1]
        THEN <<cache_file[1][username]>>
        ELSE <<>>

\* The entry of username in memory, as a sequence of at most one element.
InMemory(username) ==
    IF username \in DOMAIN collection_cache
        THEN <<collection_cache[username]>>
        ELSE <<>>

\* C1: get_cached_collection(u) at time t returns the stored album list if
\* and only if an entry for u exists (in memory, or on disk when memory has
\* none) and t minus its timestamp is strictly less than 600; in every other
\* case, an age of exactly 600 included, it returns None.
C1_GetReturnsFreshEntryOnly ==
    [][\A u \in Usernames :
        CallGet(u) =>
            LET found == IF InMemory(u) # <<>> THEN InMemory(u) ELSE OnDisk(u)
            IN  cache_call'.result =
                    IF found # <<>> /\ now - found[1].timestamp < 600
                        THEN <<found[1].data>>
                        ELSE <<>>]_vars

\* C1 witness: a get that returned None for an entry aged exactly 600 seconds.
C1_Witness ==
    /\ cache_call.op = "get"
    /\ cache_call.result = None
    /\ InMemory(cache_call.username) # <<>>
    /\ now - InMemory(cache_call.username)[1].timestamp = 600

\* C2: get_cached_collection changes the timestamp and data of no entry (a
\* promoted entry is the file's entry, the file is not written), and once
\* 600 seconds have passed since the latest set_cached_collection(u, d)
\* every get_cached_collection(u) returns None.
C2_TtlFixedFromFetchTime ==
    [][\A u \in Usernames :
        CallGet(u) =>
            /\ cache_file' = cache_file
            /\ \A v \in DOMAIN collection_cache :
                    /\ v \in DOMAIN collection_cache'
                    /\ collection_cache'[v] = collection_cache[v]
            /\ \A v \in (DOMAIN collection_cache') \ (DOMAIN collection_cache) :
                    <<collection_cache'[v]>> = OnDisk(v)
            /\ (u \in DOMAIN last_set /\ now >= last_set[u].timestamp + 600)
                    => cache_call'.result = None]_vars

\* C2 witness: a get that found the expired entry on disk, promoted it with
\* the timestamp of its set call, and returned None.
C2_Witness ==
    /\ cache_call.op = "get"
    /\ cache_call.source = "disk"
    /\ cache_call.result = None
    /\ cache_call.username \in DOMAIN last_set
    /\ InMemory(cache_call.username) = <<last_set[cache_call.username]>>
    /\ now >= last_set[cache_call.username].timestamp + 600

\* C3: set_cached_collection(u, d) leaves the memory and disk entries of
\* every other username unchanged, so get_cached_collection of another
\* username returns the same before and after the call.
C3_SetLeavesOtherUsers ==
    [][\A u \in Usernames : \A d \in CacheData :
        CallSet(u, d) =>
            \A v \in Usernames \ {u} :
                /\ InMemory(v)' = InMemory(v)
                /\ OnDisk(v)' = OnDisk(v)
                /\ get_cached_collection(collection_cache, v, now)'
                        = get_cached_collection(collection_cache, v, now)]_vars

\* C3 witness: a set for one username while another username has a fresh
\* entry on disk and none in memory.
C3_Witness ==
    /\ cache_call.op = "set"
    /\ \E v \in Usernames \ {cache_call.username} :
            /\ InMemory(v) = <<>>
            /\ OnDisk(v) # <<>>
            /\ now - OnDisk(v)[1].timestamp < 600

\* C4: set_cached_collection(u, d) stores the one entry (d, now) in memory
\* and on disk; a get_cached_collection(u) less than 600 seconds after it
\* returns d and leaves that entry in memory, also when memory was emptied
\* in between.
C4_SetThenGet ==
    [][\A u \in Usernames :
        /\ \A d \in CacheData :
                CallSet(u, d) =>
                    /\ InMemory(u)' = <<[data |-> d, timestamp |-> now]>>
                    /\ OnDisk(u)' = InMemory(u)'
        /\ (CallGet(u) /\ u \in DOMAIN last_set
                /\ now - last_set[u].timestamp < 600) =>
                    /\ cache_call'.result = <<last_set[u].data>>
                    /\ InMemory(u)' = <<last_set[u]>>]_vars

\* C4 witness: after a restart, a get that read the entry of the latest set
\* from disk, returned its data and promoted it.
C4_Witness ==
    /\ cache_call.op = "get"
    /\ cache_call.source = "disk"
    /\ cache_call.username \in DOMAIN last_set
    /\ cache_call.result = <<last_set[cache_call.username].data>>
    /\ InMemory(cache_call.username) = <<last_set[cache_call.username]>>

\* ---------------------------------------------------- claims: LLM analysis

\* Both calls have returned a response (neither raised) and the analysis is over.
BothCallsSucceeded ==
    /\ llm_pc \in {"returned", "raised"}
    /\ overview_future.state = "done" /\ ~overview_future.outcome.raised
    /\ growth_future.state = "done" /\ ~growth_future.outcome.raised

\* The result has the four fields, three of the overview response and
\* growth_areas of the growth response.
ResultIsMerged ==
    /\ llm_pc = "returned"
    /\ llm_result.kind = "returned"
    /\ DOMAIN llm_result.value
           = {"vibe_summary", "strengths", "taste_recommendations", "growth_areas"}
    /\ \A k \in {"vibe_summary", "strengths", "taste_recommendations"} :
           /\ k \in DOMAIN overview_future.outcome.value
           /\ llm_result.value[k] = overview_future.outcome.value[k]
    /\ "growth_areas" \in DOMAIN growth_future.outcome.value
    /\ llm_result.value["growth_areas"] = growth_future.outcome.value["growth_areas"]

\* C5 as stated: whenever both LLM calls succeed, the function returns the
\* merged four-field result.
C5_Original == BothCallsSucceeded => ResultIsMerged

\* C5 (amended): when both LLM calls succeed and their responses hold the
\* required fields (vibe_summary, strengths, taste_recommendations in the
\* overview response, growth_areas in the growth response), the function
\* returns exactly the four fields, the first three from the overview
\* response and growth_areas from the growth response, whichever call
\* finished first.
C5_MergedResult ==
    ( /\ BothCallsSucceeded
      /\ {"vibe_summary", "strengths", "taste_recommendations"}
             \subseteq DOMAIN overview_future.outcome.value
      /\ "growth_areas" \in DOMAIN growth_future.outcome.value )
        => ResultIsMerged

\* C5 witness: the growth call finished first, both responses hold all four
\* fields and one more, and the merged result was returned.
C5_Witness ==
    /\ llm_pc = "returned"
    /\ done_order = <<"growth", "overview">>
    /\ "note" \in DOMAIN overview_future.outcome.value
    /\ "vibe_summary" \in DOMAIN growth_future.outcome.value
    /\ llm_result.value["vibe_summary"] = <<"overview", "vibe_summary">>
    /\ llm_result.value["growth_areas"] = <<"growth", "growth_areas">>

\* The steps of analyze_collection_with_llm end with what the function of
\* the two calls' outcomes gives (the form the routes use).
LLMStepsAgree ==
    llm_pc \in {"returned", "raised"} =>
        llm_result = analyze_collection_with_llm(overview_future.outcome,
                                                 growth_future.outcome)

\* C6: both calls are submitted before the function waits on either result,
\* and it has returned or raised only when both calls have finished.
C6_SubmitBothWaitBoth ==
    /\ llm_pc \in {"overview_result", "growth_result", "exit", "returned", "raised"}
           => (overview_future.state # "none" /\ growth_future.state # "none")
    /\ llm_pc \in {"returned", "raised"}
           => (overview_future.state = "done" /\ growth_future.state = "done")

\* C6 witness: the overview call has failed and its exception is on its way
\* out of the with block while the growth call is still running.
C6_Witness ==
    /\ llm_pc = "exit"
    /\ llm_exc # None
    /\ overview_future.state = "done" /\ overview_future.outcome.raised
    /\ growth_future.state = "running"

\* ---------------------------------------------------------- claims: routes

Last(seq) == seq[Len(seq)]
IsTerminal(e) == e.event \in {"error_msg", "complete"}
IsStatus(e, step) == e.event = "status" /\ e.step = step

\* C7: every run of event_stream emits the status event step-connect first;
\* a terminal event (error_msg, complete) is the last event, so there is at
\* most one and nothing follows it; and the run has ended exactly when its
\* last event is a terminal one.
C7_OneTerminalEvent ==
    /\ events # <<>> => IsStatus(events[1], "step-connect")
    /\ \A i \in 1..Len(events) : IsTerminal(events[i]) => i = Len(events)
    /\ stream_pc = "done" <=> (events # <<>> /\ IsTerminal(Last(events)))
    /\ req = "stream" => (events # <<>> /\ stream_pc # "done")

\* C7 witness: a run that found more than 500 albums in the cache and ended
\* with error_msg right after step-connect.
C7_Witness ==
    /\ stream_pc = "done"
    /\ Len(events) = 2
    /\ Last(events).event = "error_msg"
    /\ Len(collection_data) > 500

\* C8: the step that emits complete has stored the analysis and the
\* collection size in pending_analysis under the session's discogs_token;
\* every other step of a run leaves pending_analysis unchanged, so a run
\* that ends with error_msg does.
C8_CompleteAfterStore ==
    [][ /\ (events' # events /\ events' # <<>> /\ Last(events').event = "complete") =>
              /\ "discogs_token" \in DOMAIN session
              /\ session["discogs_token"] \in DOMAIN pending_analysis'
              /\ llm_result.kind = "returned"
              /\ pending_analysis'[session["discogs_token"]]
                     = [analysis |-> llm_result.value,
                        collection_size |-> Len(collection_data)]
        /\ (stream_pc' # "none"
              /\ ~(events' # events /\ Last(events').event = "complete")) =>
              pending_analysis' = pending_analysis ]_vars

\* C8 witness: a run that ended with complete, the result of its 500 albums
\* being in pending_analysis under the session's token.
C8_Witness ==
    /\ stream_pc = "done"
    /\ Last(events).event = "complete"
    /\ "discogs_token" \in DOMAIN session
    /\ session["discogs_token"] \in DOMAIN pending_analysis
    /\ pending_analysis[session["discogs_token"]].collection_size = 500

\* An LLM call of the request raised, or a response lacks a required field.
AnalysisFailed ==
    /\ overview_future.state = "done" /\ growth_future.state = "done"
    /\ \/ overview_future.outcome.raised
       \/ growth_future.outcome.raised
       \/ ~({"vibe_summary", "strengths", "taste_recommendations"}
               \subseteq DOMAIN overview_future.outcome.value)
       \/ "growth_areas" \notin DOMAIN growth_future.outcome.value

\* C9: if either LLM call raises or either response lacks a required field,
\* analyze_collection_with_llm raises ValueError with a message starting
\* 'Error calling LLM: ' and returns no partial result; /generate-report
\* answers with that message as an error and does not write
\* session['analysis']; the stream relays it as its one error_msg event and
\* emits neither step-done nor complete.
C9_AnalysisErrorRelayed ==
    [][ AnalysisFailed' =>
          /\ llm_result'.kind = "raised"
          /\ llm_result'.value = EmptyDict
          /\ llm_result'.message # <<>>
          /\ llm_result'.message[1] = "Error calling LLM: "
          /\ (req = "none" /\ req' = "done") =>
                 /\ response'.status = 400
                 /\ response'.error = llm_result'.message
                 /\ response'.analysis = EmptyDict
                 /\ session' = session
          /\ stream_pc' # "none" =>
                 /\ Last(events') = [event |-> "error_msg", step |-> "",
                                     message |-> <<"Error during analysis: ">>
                                                     \o llm_result'.message]
                 /\ \A i \in 1..(Len(events') - 1) : events'[i].event = "status"
                 /\ \A i \in 1..Len(events') : events'[i].step # "step-done"
                 /\ stream_pc' = "done" ]_vars

\* C9 witness: /generate-report answered 400 because the growth response
\* lacks growth_areas, both calls having returned.
C9_Witness ==
    /\ AnalysisFailed
    /\ ~overview_future.outcome.raised /\ ~growth_future.outcome.raised
    /\ req = "done" /\ stream_pc = "none"
    /\ response.status = 400
    /\ response.error = <<"Error calling LLM: ", "growth_areas">>
    /\ "analysis" \notin DOMAIN session

\* C10: a stream that ends with complete is step-connect, one or more
\* step-fetch, step-analyze, step-done, complete; step-analyze is emitted
\* only for a non-empty collection of at most 500 albums, step-done only
\* after the analysis has returned.
C10_StepOrder ==
    /\ (events # <<>> /\ Last(events).event = "complete") =>
          LET n == Len(events)
          IN  /\ n >= 5
              /\ IsStatus(events[1], "step-connect")
              /\ \A i \in 2..(n - 3) : IsStatus(events[i], "step-fetch")
              /\ IsStatus(events[n - 2], "step-analyze")
              /\ IsStatus(events[n - 1], "step-done")
    /\ (\E i \in 1..Len(events) : events[i].step = "step-analyze") =>
          (collection_data # <<>> /\ Len(collection_data) <= 500)
    /\ (\E i \in 1..Len(events) : events[i].step = "step-done") =>
          (llm_result.kind = "returned" /\ ~AnalysisFailed)

\* C10 witness: a complete stream of 500 freshly fetched albums, with its
\* fifty progress events.
C10_Witness ==
    /\ events # <<>>
    /\ Last(events).event = "complete"
    /\ Len(events) > 50
    /\ Len(collection_data) = 500

\* ------------------------------------------------------- claims: /results

\* A request of route r has just been served, in one step.
Served(r) == req = "none" /\ req' = "done" /\ route' = r

\* C11: when pending_analysis holds an entry for the session's
\* discogs_token, /results removes that entry, copies its analysis and
\* collection_size into the session and renders them; when it holds none,
\* /results leaves the session as it is and renders the analysis and the
\* collection_size the session holds, so a refresh renders what the
\* consuming request rendered, and pending_analysis still has no entry for
\* the token.
C11_ResultsConsumesOnce ==
    [][ Served("results") =>
          LET sid == SessionId(session)
          IN  /\ sid \notin DOMAIN pending_analysis'
              /\ \A k \in DOMAIN pending_analysis \ {sid} :
                     /\ k \in DOMAIN pending_analysis'
                     /\ pending_analysis'[k] = pending_analysis[k]
              /\ IF sid \in DOMAIN pending_analysis
                    THEN /\ "analysis" \in DOMAIN session'
                         /\ "collection_size" \in DOMAIN session'
                         /\ session'["analysis"] = pending_analysis[sid].analysis
                         /\ session'["collection_size"] =
                                pending_analysis[sid].collection_size
                         /\ response' = Rendered(pending_analysis[sid].analysis,
                                                 pending_analysis[sid].collection_size)
                    ELSE /\ session' = session
                         /\ "analysis" \in DOMAIN session =>
                                response' = Rendered(session["analysis"],
                                                     session["collection_size"]) ]_vars

\* C11 witness: /results has rendered a report of 500 albums that the
\* session now holds, and pending_analysis has no entry for the token.
C11_Witness ==
    /\ route = "results" /\ req = "done"
    /\ Authenticated(session)
    /\ response.status = 200
    /\ response.collection_size = 500
    /\ "analysis" \in DOMAIN session
    /\ response.analysis = session["analysis"]
    /\ session["collection_size"] = 500
    /\ SessionId(session) \notin DOMAIN pending_analysis

\* ------------------------------------------- claims: limits and the gate

\* The request being served has made the call named name.
Called(name) == \E i \in 1..Len(calls) : calls[i] = name

\* The two report routes.
ReportRoutes == {"generate_report", "generate_report_stream"}

\* The request has ended with an error: a JSON error of /generate-report,
\* an error_msg event as the last event of the stream.
EndedWithError ==
    /\ req = "done"
    /\ IF route = "generate_report"
          THEN response.status \in {400, 401, 500} /\ response.error # <<>>
          ELSE events # <<>> /\ Last(events).event = "error_msg"

\* C12: neither report route calls analyze_collection_with_llm with an empty
\* collection or one of more than 500 albums, cached or freshly fetched; a
\* request whose collection is empty or too large makes no step that writes
\* the session or pending_analysis, and ends with an error.
C12_NoAnalysisOutsideLimits ==
    [][ route' \in ReportRoutes =>
          /\ Called("analyze_collection_with_llm")' =>
                 (collection_data' # <<>> /\ Len(collection_data') <= 500)
          /\ (collection_data' = <<>> \/ Len(collection_data') > 500) =>
                 /\ session' = session
                 /\ pending_analysis' = pending_analysis
                 /\ llm_result' = NoResult
                 /\ req' = "done" => EndedWithError' ]_vars

\* C12 witness: /generate-report has refused a cached collection of 501
\* albums after the identity call and the cache lookup alone.
C12_Witness ==
    /\ route = "generate_report" /\ req = "done"
    /\ Len(collection_data) = 501
    /\ calls = <<"identity", "get_cached_collection">>
    /\ response.status = 400
    /\ llm_result = NoResult

\* The session lacks one of the two tokens.
LacksToken(sess) ==
    "discogs_token" \notin DOMAIN sess \/ "discogs_token_secret" \notin DOMAIN sess

\* C13: with a session that lacks discogs_token or discogs_token_secret,
\* /generate-report answers 401 and /generate-report-stream emits
\* step-connect and then one error_msg event and ends; neither makes a
\* Discogs, LLM or cache call, nor writes the cache, the session or
\* pending_analysis.
C13_AuthenticationGate ==
    [][ (LacksToken(session) /\ route' \in ReportRoutes) =>
          /\ calls' = <<>>
          /\ UNCHANGED <<collection_cache, cache_file, session, pending_analysis>>
          /\ llm_result' = NoResult
          /\ route' = "generate_report" =>
                 /\ req' = "done"
                 /\ response' = ErrorResponse(401, <<"Not authenticated with Discogs">>)
          /\ route' = "generate_report_stream" =>
                 /\ req = "stream" => req' = "done"
                 /\ Len(events') >= 1 /\ IsStatus(events'[1], "step-connect")
                 /\ req' = "done" =>
                        /\ Len(events') = 2
                        /\ events'[2].event = "error_msg" ]_vars

\* C13 witness: after a logout the stream has ended with step-connect and
\* error_msg, while the cache file holds a collection it could have used.
C13_Witness ==
    /\ route = "generate_report_stream" /\ req = "done"
    /\ LacksToken(session)
    /\ Len(events) = 2
    /\ calls = <<>>
    /\ cache_file # <<>>

\* ---------------------------------------------------- claims: cache use

\* The entry get_cached_collection(username) finds, and whether it is fresh.
Found(username) == IF InMemory(username) # <<>> THEN InMemory(username)
                   ELSE OnDisk(username)
HasFresh(username) ==
    Found(username) # <<>> /\ now - Found(username)[1].timestamp < 600

\* The step makes the call named name.
Calls(name) == ~Called(name) /\ Called(name)'

\* C14: when the cache holds a fresh entry for the authenticated username,
\* /generate-report (fetch_collection_from_discogs) and the stream take the
\* cached album list after the identity call and the lookup alone and leave
\* the entry and the cache file as they are; user.collection_folders, the
\* releases and set_cached_collection are reached only when the lookup found
\* no fresh entry.
C14_FreshEntryIsUsed ==
    [][ route' \in ReportRoutes =>
          /\ (Calls("get_cached_collection") /\ HasFresh(user')) =>
                 /\ collection_data' = Found(user')[1].data
                 /\ calls' \in {<<"identity", "get_cached_collection">>,
                                <<"identity", "get_cached_collection",
                                  "analyze_collection_with_llm">>}
                 /\ cache_file' = cache_file
                 /\ Get(collection_cache', user') = Found(user')
                 /\ stream_pc' \in {"none", "cached", "done"}
          /\ ( \/ Calls("collection_folders")
               \/ Calls("releases")
               \/ Calls("set_cached_collection") ) =>
                 (user' \in Usernames /\ ~HasFresh(user')) ]_vars

\* C14 witness: a complete stream that used the cached collection: the
\* identity call, the lookup and the analysis are all the calls it made.
C14_Witness ==
    /\ route = "generate_report_stream" /\ req = "done"
    /\ Last(events).event = "complete"
    /\ calls = <<"identity", "get_cached_collection", "analyze_collection_with_llm">>
    /\ HasFresh(user)
    /\ collection_data = Found(user)[1].data

\* ------------------------------------------------ claims: OAuth and logout

\* The query arguments of /callback and what its Discogs calls may do.
CallbackInputs ==
    [verifier : {"", "v"}, oauth_token : {"", "rt1", "rt9"},
     exchange : ExchangeOutcomes,
     identity : {Raised(<<"identity failed">>), Returned("alice")}]

\* The value of key in sess, as a sequence of at most one element.
Held(sess, key) == IF key \in DOMAIN sess THEN <<sess[key]>> ELSE <<>>

\* C15: /callback writes discogs_token and discogs_token_secret exactly when
\* a verifier was supplied, a request token and secret were found (in the
\* session, else in oauth_token_cache under the supplied oauth_token), the
\* supplied oauth_token, if any, equals the request token, and the exchange
\* succeeded; it then removes the request token and secret from the session.
\* On every other path it answers with an error and leaves both tokens of
\* the session as they were.
C15_CallbackWritesTokens ==
    [][ \A in \in CallbackInputs :
          callback(in.verifier, in.oauth_token, in.exchange, in.identity) =>
            LET found ==
                    IF Held(session, "discogs_request_token") # <<>>
                       /\ Held(session, "discogs_request_secret") # <<>>
                        THEN Held(session, "discogs_request_token")
                    ELSE IF in.oauth_token # ""
                            /\ in.oauth_token \in DOMAIN oauth_token_cache
                        THEN <<in.oauth_token>>
                    ELSE <<>>
                granted ==
                    /\ in.verifier # ""
                    /\ found # <<>>
                    /\ in.oauth_token # "" => in.oauth_token = found[1]
                    /\ ~in.exchange.raised
            IN  IF granted
                    THEN /\ Held(session', "discogs_token") = <<in.exchange.value[1]>>
                         /\ Held(session', "discogs_token_secret") = <<in.exchange.value[2]>>
                         /\ Held(session', "discogs_request_token") = <<>>
                         /\ Held(session', "discogs_request_secret") = <<>>
                         /\ response'.status = 302
                    ELSE /\ Held(session', "discogs_token") = Held(session, "discogs_token")
                         /\ Held(session', "discogs_token_secret") =
                                Held(session, "discogs_token_secret")
                         /\ response'.status \in {400, 401, 500}
                         /\ response'.error # <<>> ]_vars

\* C15 witness: a callback whose session held no request token has found
\* it in oauth_token_cache, emptied that cache and logged the user in.
C15_Witness ==
    /\ route = "callback" /\ req = "done"
    /\ response.status = 302
    /\ oauth_token_cache = EmptyDict
    /\ Held(session, "discogs_token") = <<"at1">>
    /\ Held(session, "discogs_token_secret") = <<"as1">>
    /\ Held(session, "discogs_request_token") = <<>>

\* C16: /logout removes discogs_token, discogs_token_secret and
\* discogs_username from the session and nothing else, and leaves
\* pending_analysis, oauth_token_cache and the collection cache as they
\* are.  The session then lacks the tokens until a successful callback
\* writes them; as long as it does, /generate-report answers 401, the stream
\* ends with error_msg, and /results renders the analysis and the
\* collection_size the session still holds.
C16_LogoutKeepsAnalysis ==
    [][ /\ Served("logout") =>
             /\ DOMAIN session' = DOMAIN session \
                    {"discogs_token", "discogs_token_secret", "discogs_username"}
             /\ \A k \in DOMAIN session' : session'[k] = session[k]
             /\ LacksToken(session')
             /\ UNCHANGED <<pending_analysis, oauth_token_cache,
                            collection_cache, cache_file>>
        /\ (LacksToken(session) /\ ~LacksToken(session')) =>
             (route' = "callback" /\ response'.status = 302)
        /\ (LacksToken(session) /\ Served("generate_report")) =>
             response'.status = 401
        /\ (LacksToken(session) /\ route' = "generate_report_stream" /\ req' = "done") =>
             Last(events').event = "error_msg"
        /\ (LacksToken(session) /\ Served("results")
                /\ "analysis" \in DOMAIN session) =>
             /\ response' = Rendered(session["analysis"], session["collection_size"])
             /\ session' = session ]_vars

\* C16 witness: after a logout /results has rendered the report the session
\* holds, while a newer result waits in pending_analysis under the token
\* that was removed.
C16_Witness ==
    /\ route = "results" /\ req = "done"
    /\ LacksToken(session)
    /\ response.status = 200
    /\ response.analysis = session["analysis"]
    /\ "at1" \in DOMAIN pending_analysis

\* ------------------------------------------- claims: concurrent cache writes

\* C17: when two set_cached_collection calls for different usernames, on two
\* threads, have both completed, the cache file holds the new entries of
\* both usernames, and so does the in-memory cache.
C17_ConcurrentWritesKeepBoth ==
    \A t1 \in Threads, t2 \in Threads :
        ( /\ writers[t1].pc = "done" /\ writers[t2].pc = "done"
          /\ writers[t1].username # writers[t2].username ) =>
            /\ OnDisk(writers[t1].username) = <<writers[t1].entry>>
            /\ OnDisk(writers[t2].username) = <<writers[t2].entry>>
            /\ InMemory(writers[t1].username) = <<writers[t1].entry>>
            /\ InMemory(writers[t2].username) = <<writers[t2].entry>>

\* ------------------------------------------- claims: the two fetch paths

\* No entry of the cache, in memory or in the file, has more than 500 albums.
NoOversizeEntry ==
    \A u \in Usernames :
        /\ InMemory(u) # <<>> => Len(InMemory(u)[1].data) <= 500
        /\ OnDisk(u) # <<>> => Len(OnDisk(u)[1].data) <= 500

\* The step ends the fetch of the stream (lines 472-548): with step-analyze
\* or with an error event.
StreamFetchEnds ==
    /\ stream_pc \in {"fetch", "loop"}
    /\ stream_pc' \in {"analyze", "done"}

\* What fetch_collection_from_discogs leaves of the cache when it reads, in
\* the state before the step, the releases the stream has just read.
SyncFetch == fetch_collection_from_discogs(Returned(user'), Collection("ok", releases'))

\* C18 as stated: no collection of more than 500 albums is ever written to
\* the cache, and the stream leaves the cache as fetch_collection_from_discogs
\* leaves it for the same Discogs input.
C18_Original ==
    [][ /\ NoOversizeEntry'
        /\ StreamFetchEnds =>
               /\ collection_cache' = SyncFetch.cache
               /\ cache_file' = SyncFetch.file ]_vars

\* C18 amended: the stream never writes a collection of more than 500
\* albums to the cache; fetch_collection_from_discogs writes every non-empty
\* collection it fetches, one of more than 500 albums too.  For the same
\* Discogs input the two leave the cache in the same state unless more than
\* 500 albums were fetched; then the stream leaves the cache as it was and
\* fetch_collection_from_discogs stores the collection.
C18_PathsAgreeWithinLimit ==
    [][ /\ (route' = "generate_report_stream" /\ NoOversizeEntry) => NoOversizeEntry'
        /\ StreamFetchEnds =>
               IF stream_pc' = "analyze" \/ Len(collection_data') <= 500
                   THEN /\ collection_cache' = SyncFetch.cache
                        /\ cache_file' = SyncFetch.file
                   ELSE /\ UNCHANGED <<collection_cache, cache_file>>
                        /\ Get(SyncFetch.cache, user') =
                               <<NewEntry(collection_data', now)>>
                        /\ SyncFetch.file =
                               <<Put(_load_cache_file, user',
                                     NewEntry(collection_data', now))>> ]_vars

\* C18 witness: the stream has fetched 501 albums, refused them and left
\* the cache empty.
C18_Witness ==
    /\ route = "generate_report_stream" /\ req = "done"
    /\ Len(collection_data) = 501
    /\ Called("releases") /\ ~Called("set_cached_collection")
    /\ Last(events).event = "error_msg"
    /\ collection_cache = EmptyDict /\ cache_file = <<>>

====
